---- MODULE Spec2Model ----
(***************************************************************************)
(* Model of setlistfm-playlist-sync: the Setlist.fm client                 *)
(* (setlist_api.py: make_request, fetch_setlists_for_year,                 *)
(* _extract_songs_from_setlist) and the ranking of songs (utils.py:        *)
(* top_songs).                                                             *)
(*                                                                         *)
(* Text is modelled as a sequence of one-character strings, so that        *)
(* slicing, isdigit(), int() and str() are computed as Python computes     *)
(* them.  JSON values are tagged records: [t |-> "absent"] is a missing    *)
(* key, [t |-> "null"] is None.                                            *)
(***************************************************************************)
EXTENDS Integers, Sequences, FiniteSets, TLC

VARIABLES
    mpc,          \* make_request: "idle" | "loop" | "returned" | "raised"
    attempts,     \* make_request: local attempts
    retry_after,  \* make_request: local retry_after
    r,            \* make_request: the last response received by requests.get
    exc,          \* make_request: the exception the call raised
    trace,        \* observer: GETs and sleeps of the current make_request call
    calls,        \* observer: number of make_request calls driven directly
    limited,      \* observer: an earlier call driven directly was answered 429
    pc,           \* fetch_setlists_for_year: "idle" | "loop" | "request" | "paginate"
                  \*   | "done" | "raised"
    year,         \* fetch_setlists_for_year: argument year
    max_pages,    \* fetch_setlists_for_year: argument max_pages
    page_num,     \* fetch_setlists_for_year: loop variable
    songs,        \* fetch_setlists_for_year: local songs
    setlists,     \* fetch_setlists_for_year: local setlists (ids of the page's setlists)
    total,        \* fetch_setlists_for_year: local total
    items_per_page, \* fetch_setlists_for_year: local items_per_page
    result,       \* fetch_setlists_for_year: the returned list
    fexc,         \* fetch_setlists_for_year: the exception that left the function
    reqPages,     \* observer: the p parameter of every make_request call, in order
    processed,    \* observer: number of pages whose body was processed
    tp,           \* observer: the (total, itemsPerPage) pairs reported so far
    sawEmpty,     \* observer: a page served so far had no setlist
    sawOlder,     \* observer: a page served so far had a setlist older than year
    rk_pc,        \* top_songs: "idle" | "call" | "done"
    rk_songs,     \* top_songs: argument songs
    rk_n,         \* top_songs: argument n
    rk_out,       \* top_songs: the returned list
    ex_pc,        \* _extract_songs_from_setlist: "idle" | "call" | "done"
    ex_setlist,   \* _extract_songs_from_setlist: argument setlist
    ex_out,       \* _extract_songs_from_setlist: the returned list, or raised
    sa_pc,        \* search_artist: "idle" | "call" | "request" | "done" | "raised"
    artist_name,  \* search_artist: argument artist_name
    sa_artists,   \* search_artist: data.get("artist") of the response (null: none read)
    sa_out,       \* search_artist: the returned record, or the exception
    sa_reqs,      \* observer: the artistName of every make_request call, in order
    pl_pc,        \* create_or_update_ytmusic_playlist: "idle" | "find" | "search"
                  \*   | "add" | "done" | "raised"
    title,        \* create_or_update_ytmusic_playlist: argument title
    queries,      \* create_or_update_ytmusic_playlist: argument queries
    playlist_id,  \* create_or_update_ytmusic_playlist: local playlist_id
    video_ids,    \* _search_for_videos: local video_ids
    pl_i,         \* _search_for_videos: number of queries gone through
    pl_out,       \* create_or_update_ytmusic_playlist: the returned pair
    pl_lib,       \* observer: what get_library_playlists answered
    pl_searches,  \* observer: the ytm.search calls and their answers, in order
    pl_adds,      \* observer: the add_playlist_items calls, in order
    pl_creates,   \* observer: the create_playlist calls, in order
    pl_tracks,    \* YouTube Music: the tracks of the playlist playlist_id
    pl_call,      \* the number of the invocation: 1 or 2
    pl_prev,      \* observer: what the first invocation saw and left behind
    printed,      \* run: the queries printed under "Tracks added"
    cli_pc,       \* the command: "idle" | "import" | "main" | the stage of run that
                  \*   is next | "exit"
    argv,         \* main: the command line (year, tracks or none)
    env,          \* the credentials present in the environment
    run_calls,    \* observer: the calls of run, in order
    stages,       \* observer: the stages run has called, in order
    run_songs,    \* run: what fetch_setlists_for_year gave
    top_tracks,   \* run: local top_tracks
    net,          \* observer: number of stages that made network calls
    failed,       \* observer: the step that raised
    report,       \* observer: the error reported to the user
    exit_status   \* the exit status of the process: <<>> while it runs

mrvars == <<mpc, attempts, retry_after, r, exc>>
fetchvars == <<pc, year, max_pages, page_num, songs, setlists, total, items_per_page,
               result, fexc, reqPages, processed, tp, sawEmpty, sawOlder>>
rankvars == <<rk_pc, rk_songs, rk_n, rk_out>>
\* the variables of the functions outside the Setlist.fm client
extractvars == <<ex_pc, ex_setlist, ex_out>>
searchvars == <<sa_pc, artist_name, sa_artists, sa_out, sa_reqs>>
playlistvars == <<pl_pc, title, queries, playlist_id, video_ids, pl_i, pl_out, pl_lib,
                  pl_searches, pl_adds, pl_creates, pl_tracks, pl_call, pl_prev,
                  printed>>
clivars == <<cli_pc, argv, env, run_calls, stages, run_songs, top_tracks, net, failed,
             report, exit_status>>
restvars == <<rankvars, extractvars, searchvars, playlistvars, clivars>>
vars == <<mpc, attempts, retry_after, r, exc, trace, calls, limited,
          pc, year, max_pages, page_num, songs, setlists, total, items_per_page,
          result, fexc, reqPages, processed, tp, sawEmpty, sawOlder,
          rk_pc, rk_songs, rk_n, rk_out, ex_pc, ex_setlist, ex_out,
          sa_pc, artist_name, sa_artists, sa_out, sa_reqs,
          pl_pc, title, queries, playlist_id, video_ids, pl_i, pl_out, pl_lib,
          pl_searches, pl_adds, pl_creates, pl_tracks, pl_call, pl_prev, printed,
          cli_pc, argv, env, run_calls, stages, run_songs, top_tracks, net, failed,
          report, exit_status>>

(***************************************************************************)
(* Bounds of the model.                                                    *)
(***************************************************************************)
MaxCalls == 2
MaxPagesCap == 2
MaxSetlists == 2
MaxSongs == 4
MaxN == 3
NegN == 1
MaxGroups == 2
MaxArtists == 2
MaxQueries == 2
MaxPlaylists == 2

(***************************************************************************)
(* Program constants.                                                      *)
(***************************************************************************)
RATE_LIMIT_DELAY == 1
MAX_RETRIES == 3
DefaultItemsPerPage == 20
DefaultTotal == 0
DateLen == 10
YearLen == 4

(***************************************************************************)
(* Python text primitives.                                                 *)
(***************************************************************************)
Digits == <<"0", "1", "2", "3", "4", "5", "6", "7", "8", "9">>

IsDigitChar(c) == \E i \in 1..Len(Digits) : Digits[i] = c

DigitValue(c) == (CHOOSE i \in 1..Len(Digits) : Digits[i] = c) - 1

\* str.isdigit(): non-empty and every character a digit
isdigit(s) == Len(s) > 0 /\ \A i \in 1..Len(s) : IsDigitChar(s[i])

\* int(s) of a digit string
RECURSIVE int(_)
int(s) ==
    IF Len(s) = 0 THEN 0
    ELSE 10 * int(SubSeq(s, 1, Len(s) - 1)) + DigitValue(s[Len(s)])

\* str(n) of a non-negative integer
RECURSIVE str(_)
str(n) ==
    IF n < 10 THEN <<Digits[n + 1]>>
    ELSE str(n \div 10) \o <<Digits[(n % 10) + 1]>>

\* s[-k:]
Tail_k(s, k) == IF Len(s) <= k THEN s ELSE SubSeq(s, Len(s) - k + 1, Len(s))

(***************************************************************************)
(* HTTP: what one requests.get can produce.                                *)
(***************************************************************************)
NoHeader == [present |-> FALSE, value |-> <<>>]
Header(s) == [present |-> TRUE, value |-> s]

\* Retry-After headers the server sends with a 429 (delta-seconds form)
RetryAfterHeaders == {NoHeader, Header(<<"3">>), Header(<<"1", "0">>)}

NoStatus == 0
NoResponse == [status |-> NoStatus, hdr |-> NoHeader]
Response(st, h) == [status |-> st, hdr |-> h]

StatusOK == 200
StatusNotFound == 404
StatusTooMany == 429
\* error statuses other than 429 the server answers with
ErrorStatuses == {StatusNotFound, 500}

\* outcome of requests.get: a response, or an exception raised by the transport
\* (a connection failure carries no response; TooManyRedirects carries the
\* last redirect response)
GetOutcomes ==
    {[raises |-> "none", resp |-> Response(StatusOK, NoHeader)]}
    \cup {[raises |-> "none", resp |-> Response(StatusTooMany, h)] : h \in RetryAfterHeaders}
    \cup {[raises |-> "none", resp |-> Response(s, NoHeader)] : s \in ErrorStatuses}
    \cup {[raises |-> "ConnectionError", resp |-> NoResponse]}
    \cup {[raises |-> "TooManyRedirects", resp |-> Response(302, NoHeader)]}

\* exception objects: type, the status of e.response (NoStatus: response is
\* None), and the exception it wraps (type and response status)
NoExc == [type |-> "none", status |-> NoStatus, cause |-> "none", causeStatus |-> NoStatus]
Exc(t, st) == [type |-> t, status |-> st, cause |-> "none", causeStatus |-> NoStatus]
Wrapping(t, e) == [type |-> t, status |-> NoStatus, cause |-> e.type, causeStatus |-> e.status]

\* bool(response): requests.Response.__bool__ is response.ok
ResponseTruthy(resp) == resp.status # NoStatus /\ resp.status < 400

\* r.raise_for_status() raises for 4xx and 5xx
RaisesForStatus(resp) == resp.status >= 400 /\ resp.status < 600

(***************************************************************************)
(* make_request: one iteration of the while loop, on the locals            *)
(* st = [mpc, attempts, retry_after, r, exc], with the sleeps it performs. *)
(***************************************************************************)
MRStart == [mpc |-> "loop", attempts |-> 0, retry_after |-> RATE_LIMIT_DELAY,
            r |-> NoResponse, exc |-> NoExc, slept |-> <<>>]

\* int(r.headers.get('Retry-After', retry_after * 2))
RetryWait_NoCarry(resp, cur) ==
    IF resp.hdr.present THEN int(resp.hdr.value) ELSE RATE_LIMIT_DELAY * 2
RetryWait(resp, cur) ==
    IF resp.hdr.present THEN int(resp.hdr.value) ELSE cur * 2

\* hasattr(e, 'response') and e.response and e.response.status_code != 429
ReraiseNow(resp) == ResponseTruthy(resp) /\ resp.status # StatusTooMany

\* while attempts < MAX_RETRIES ... raise RuntimeError("... max retries")
LoopTest_NoCap(st) == st
LoopTest(st) ==
    IF st.mpc = "loop" /\ ~(st.attempts < MAX_RETRIES)
    THEN [st EXCEPT !.mpc = "raised", !.exc = Exc("RuntimeError", NoStatus)]
    ELSE st

\* the 429 branch: wait, count the attempt, continue
OnRateLimited_NoSleep(st, resp) ==
    [st EXCEPT !.r = resp, !.retry_after = RetryWait(resp, st.retry_after),
               !.attempts = st.attempts + 1]
OnRateLimited(st, resp) ==
    LET w == RetryWait(resp, st.retry_after)
    IN [st EXCEPT !.r = resp, !.retry_after = w, !.slept = <<w>>,
                  !.attempts = st.attempts + 1]

\* the success path: sleep the base delay and return r
OnSuccess_NoSleep(st, resp) == [st EXCEPT !.r = resp, !.mpc = "returned"]
OnSuccess(st, resp) ==
    [st EXCEPT !.r = resp, !.slept = <<RATE_LIMIT_DELAY>>, !.mpc = "returned"]

\* except requests.exceptions.RequestException as e
OnException_Uncounted(st, e, resp) ==
    IF ReraiseNow(resp) THEN [st EXCEPT !.mpc = "raised", !.exc = e] ELSE st
OnException(st, e, resp) ==
    IF ReraiseNow(resp)
    THEN [st EXCEPT !.mpc = "raised", !.exc = e]
    ELSE IF st.attempts >= MAX_RETRIES - 1
    THEN [st EXCEPT !.mpc = "raised", !.exc = Wrapping("RuntimeError", e)]
    ELSE [st EXCEPT !.attempts = st.attempts + 1]

make_request_iter(st, out) ==
    LET s0 == [st EXCEPT !.slept = <<>>]
        s1 == IF out.raises # "none"
              THEN OnException(s0, Exc(out.raises, out.resp.status), out.resp)
              ELSE IF out.resp.status = StatusTooMany
              THEN OnRateLimited(s0, out.resp)
              ELSE IF RaisesForStatus(out.resp)
              THEN OnException([s0 EXCEPT !.r = out.resp],
                               Exc("HTTPError", out.resp.status), out.resp)
              ELSE OnSuccess(s0, out.resp)
    IN LoopTest(s1)

\* the events one iteration adds to the call log: the GET, then its sleeps
GetEvent(out) ==
    [ev |-> "get", status |-> out.resp.status, raises |-> out.raises, d |-> 0,
     hdr |-> out.resp.hdr]
SleepEvent(d) ==
    [ev |-> "sleep", status |-> NoStatus, raises |-> "none", d |-> d, hdr |-> NoHeader]
IterEvents(out, st) ==
    <<GetEvent(out)>> \o [i \in 1..Len(st.slept) |-> SleepEvent(st.slept[i])]

MRLocals == [mpc |-> mpc, attempts |-> attempts, retry_after |-> retry_after,
             r |-> r, exc |-> exc, slept |-> <<>>]

\* a call of make_request: retry_after and attempts are locals, set anew
\* on lines 37-38 whatever an earlier call left
CallEntry_Shared(st) == [st EXCEPT !.mpc = "loop", !.exc = NoExc]
CallEntry(st) == MRStart

SetLocals(st) ==
    /\ mpc' = st.mpc
    /\ attempts' = st.attempts
    /\ retry_after' = st.retry_after
    /\ r' = st.r
    /\ exc' = st.exc

(***************************************************************************)
(* JSON of a setlists page.                                                *)
(***************************************************************************)
JAbsent == [t |-> "absent"]
JNull == [t |-> "null"]
JStr(s) == [t |-> "str", s |-> s]
JBool(b) == [t |-> "bool", b |-> b]
JList(v) == [t |-> "list", v |-> v]
\* a song entry {"name": ..., "tape": ...}
SongEntry(name, tape) == [name |-> name, tape |-> tape]
\* a Set group {"song": ...}; other: the object has further keys
SetGroup(song, other) == [t |-> "obj", song |-> song, other |-> other]
\* the "sets" object {"set": ...}
SetsObj(set) == [t |-> "obj", set |-> set]
Setlist(date, sets) == [eventDate |-> date, sets |-> sets]

\* truth value of a name or a tape marker
Truthy(j) ==
    CASE j.t = "str" -> j.s # ""
      [] j.t = "bool" -> j.b
      [] OTHER -> FALSE

\* truth value of a Set group: None and {} are falsy
GroupTruthy(g) == g.t = "obj" /\ (g.song.t # "absent" \/ g.other)

NoSongs == [raised |-> FALSE, songs |-> <<>>]
RaisedSongs == [raised |-> TRUE, songs |-> <<>>]

\* for song in set_songs: name = song.get("name"); if name and not song.get("tape")
RECURSIVE SongNames(_)
SongNames(entries) ==
    IF Len(entries) = 0 THEN <<>>
    ELSE LET e == Head(entries)
         IN (IF Truthy(e.name) /\ ~Truthy(e.tape) THEN <<e.name.s>> ELSE <<>>)
            \o SongNames(Tail(entries))

\* set_songs = set_data.get("song", []) and the loop over it
GroupSongs(g) ==
    IF ~GroupTruthy(g) THEN NoSongs
    ELSE IF g.song.t = "absent" THEN NoSongs
    ELSE IF g.song.t = "list" THEN [raised |-> FALSE, songs |-> SongNames(g.song.v)]
    ELSE RaisedSongs

RECURSIVE GroupsSongs(_)
GroupsSongs(groups) ==
    IF Len(groups) = 0 THEN NoSongs
    ELSE LET h == GroupSongs(Head(groups))
             t == GroupsSongs(Tail(groups))
         IN IF h.raised \/ t.raised THEN RaisedSongs
            ELSE [raised |-> FALSE, songs |-> h.songs \o t.songs]

\* sets = sets_data.get("set", []); if not isinstance(sets, list): sets = [sets] if sets else []
NormalizeSets_ListOnly(set) == IF set.t = "list" THEN set.v ELSE <<>>
NormalizeSets(set) ==
    IF set.t = "list" THEN set.v
    ELSE IF GroupTruthy(set) THEN <<set>>
    ELSE <<>>

_extract_songs_from_setlist(setlist) ==
    IF setlist.sets.t = "absent" THEN NoSongs
    ELSE IF setlist.sets.t = "obj"
    THEN GroupsSongs(NormalizeSets(setlist.sets.set))
    ELSE RaisedSongs

(***************************************************************************)
(* The setlists the server holds.                                          *)
(***************************************************************************)
Date2024a == <<"1", "5", "-", "1", "0", "-", "2", "0", "2", "4">>
Date2024b == <<"1", "6", "-", "1", "0", "-", "2", "0", "2", "4">>
Date2023 == <<"0", "1", "-", "0", "2", "-", "2", "0", "2", "3">>
Date2025 == <<"3", "1", "-", "1", "2", "-", "2", "0", "2", "5">>
DateShort == <<"1", "0", "-", "2", "0", "2", "4">>
DateNoYear == <<"1", "5", "-", "1", "0", "-", "2", "0", "x", "4">>

Song(n) == SongEntry(JStr(n), JAbsent)
Tape(n) == SongEntry(JStr(n), JBool(TRUE))

\* the setlists the server holds, by their "id"
SetlistIds == {"a24", "b24", "c23", "d25", "short", "noyear"}

SetlistOf(id) ==
    CASE id = "a24" ->
           Setlist(Date2024a,
                   SetsObj(JList(<<SetGroup(JList(<<Tape("Intro"), Song("A")>>), FALSE),
                                   SetGroup(JList(<<Song("B")>>), TRUE)>>)))
      [] id = "b24" -> Setlist(Date2024b, SetsObj(SetGroup(JList(<<Song("B")>>), FALSE)))
      [] id = "c23" ->
           Setlist(Date2023, SetsObj(JList(<<SetGroup(JList(<<Song("C")>>), FALSE)>>)))
      [] id = "d25" ->
           Setlist(Date2025, SetsObj(JList(<<SetGroup(JList(<<Song("A")>>), FALSE)>>)))
      [] id = "short" ->
           Setlist(DateShort, SetsObj(JList(<<SetGroup(JList(<<Song("C")>>), FALSE)>>)))
      [] OTHER -> Setlist(DateNoYear, JAbsent)

(***************************************************************************)
(* fetch_setlists_for_year: the body of one page.                          *)
(***************************************************************************)
\* setlist_year == target_year, both text
YearMatches_Int(setlist_year, y) == isdigit(setlist_year) /\ int(setlist_year) <= y
YearMatches(setlist_year, y) == setlist_year = str(y)

\* setlist_year.isdigit() and int(setlist_year) < year
YearOlder_AnyOther(setlist_year, y) == isdigit(setlist_year) /\ int(setlist_year) # y
YearOlder(setlist_year, y) == isdigit(setlist_year) /\ int(setlist_year) < y

\* one setlist of the page, on acc = [songs, older, raised]
ScanSetlist(acc, setlist, y) ==
    LET event_date == setlist.eventDate
        setlist_year == Tail_k(event_date, YearLen)
    IN IF acc.raised THEN acc
       ELSE IF ~(Len(event_date) >= DateLen) THEN acc
       ELSE IF YearMatches(setlist_year, y)
       THEN LET x == _extract_songs_from_setlist(setlist)
            IN IF x.raised THEN [acc EXCEPT !.raised = TRUE]
               ELSE [acc EXCEPT !.songs = acc.songs \o x.songs]
       ELSE IF YearOlder(setlist_year, y) THEN [acc EXCEPT !.older = TRUE]
       ELSE acc

\* for setlist in setlists: the loop has no break, the whole page is gone
\* through
RECURSIVE ScanSetlists_StopAtOlder(_, _, _)
ScanSetlists_StopAtOlder(acc, sl, y) ==
    IF Len(sl) = 0 \/ acc.older THEN acc
    ELSE ScanSetlists_StopAtOlder(ScanSetlist(acc, SetlistOf(Head(sl)), y), Tail(sl), y)
RECURSIVE ScanSetlists(_, _, _)
ScanSetlists(acc, sl, y) ==
    IF Len(sl) = 0 THEN acc
    ELSE ScanSetlists(ScanSetlist(acc, SetlistOf(Head(sl)), y), Tail(sl), y)

\* if older_than_year: break
StopOnOlder_Never(older) == FALSE
StopOnOlder(older) == older

\* if not setlists: break
EmptyPage_Never(sl) == FALSE
EmptyPage(sl) == Len(sl) = 0

\* the loop body after make_request returned r, from the 404 test to the
\* break on older_than_year, with sl = data.get("setlist", []): the new
\* songs, and whether the loop is left (break or an exception)
ScanPage(sngs, resp, sl, y) ==
    IF resp.status = StatusNotFound
    THEN [songs |-> sngs, stop |-> TRUE, raised |-> FALSE]
    ELSE IF EmptyPage(sl)
    THEN [songs |-> sngs, stop |-> TRUE, raised |-> FALSE]
    ELSE LET s == ScanSetlists([songs |-> sngs, older |-> FALSE, raised |-> FALSE], sl, y)
         IN [songs |-> s.songs, stop |-> s.raised \/ StopOnOlder(s.older),
             raised |-> s.raised]

\* if page_num * items_per_page >= total: break
LastPage_Never(p, ipp, t) == FALSE
LastPage(p, ipp, t) == p * ipp >= t

\* for page_num in range(1, max_pages + 1)
HasNextPage_OffByOne(p, cap) == p <= cap
HasNextPage(p, cap) == p < cap

\* make_request raised inside fetch_setlists_for_year: no handler, the
\* exception leaves the function
OnRequestError_Swallow(e, sngs) ==
    [pc |-> "done", fexc |-> NoExc, result |-> [returned |-> TRUE, value |-> sngs]]
OnRequestError(e, sngs) ==
    [pc |-> "raised", fexc |-> e, result |-> [returned |-> FALSE, value |-> <<>>]]

(***************************************************************************)
(* The pages the server serves.                                            *)
(***************************************************************************)
Years == {2023, 2024}
\* "total" (absent: 0) and "itemsPerPage" (absent: 20) of a page
Totals == {DefaultTotal, 3, 40}
ItemsPerPageValues == {0, 2, DefaultItemsPerPage}

\* the "setlist" array of a page, as the ids of its setlists
SetlistSeqs == UNION {[1..n -> SetlistIds] : n \in 0..MaxSetlists}

NoResult == [returned |-> FALSE, value |-> <<>>]
NoTP == [n |-> "none", total |-> 0, itemsPerPage |-> 0]

\* observers of the pages served
IsOlderSetlist(setlist, y) ==
    /\ Len(setlist.eventDate) = DateLen
    /\ isdigit(Tail_k(setlist.eventDate, YearLen))
    /\ int(Tail_k(setlist.eventDate, YearLen)) < y

PageHasOlder(sl, y) == \E i \in 1..Len(sl) : IsOlderSetlist(SetlistOf(sl[i]), y)

TpNext(cur, t, ipp) ==
    IF cur.n = "none" THEN [n |-> "same", total |-> t, itemsPerPage |-> ipp]
    ELSE IF cur.n = "same" /\ cur.total = t /\ cur.itemsPerPage = ipp
    THEN cur
    ELSE [n |-> "mixed", total |-> 0, itemsPerPage |-> 0]

(***************************************************************************)
(* make_request driven directly (as the unit tests drive it).              *)
(***************************************************************************)
LocalsAre(st) ==
    /\ mpc = st.mpc
    /\ attempts = st.attempts
    /\ retry_after = st.retry_after
    /\ r = st.r
    /\ exc = st.exc

FetchIdle ==
    /\ pc = "idle"
    /\ year = 0
    /\ max_pages = 0
    /\ page_num = 0
    /\ songs = <<>>
    /\ setlists = <<>>
    /\ total = 0
    /\ items_per_page = 0
    /\ result = NoResult
    /\ fexc = NoExc
    /\ reqPages = <<>>
    /\ processed = 0
    /\ tp = NoTP
    /\ sawEmpty = FALSE
    /\ sawOlder = FALSE

RankIdle ==
    /\ rk_pc = "idle"
    /\ rk_songs = <<>>
    /\ rk_n = 0
    /\ rk_out = <<>>

ExtractIdle ==
    /\ ex_pc = "idle"
    /\ ex_setlist = Setlist(<<>>, JAbsent)
    /\ ex_out = NoSongs

\* what search_artist gave: kind is "none", "returned" or "raised"; a
\* raised ValueError names the query
NoSearchResult == [kind |-> "none", name |-> <<>>, mbid |-> 0, exc |-> "none"]

SearchIdle ==
    /\ sa_pc = "idle"
    /\ artist_name = <<>>
    /\ sa_artists = JNull
    /\ sa_out = NoSearchResult
    /\ sa_reqs = <<>>

\* a playlist id: ("lib", i) is the id of the i-th library playlist,
\* ("new", 0) the id create_playlist gives
NoPlaylistId == <<"none", 0>>
NoPrev == [lib |-> JNull, creates |-> <<>>, playlist_id |-> NoPlaylistId,
           searches |-> <<>>, tracks |-> <<>>, video_ids |-> <<>>]
NoPrint == [done |-> FALSE, queries |-> <<>>]
NoPair == [returned |-> FALSE, playlist_id |-> NoPlaylistId, video_ids |-> <<>>]

PlaylistIdle ==
    /\ pl_pc = "idle"
    /\ title = <<>>
    /\ queries = <<>>
    /\ playlist_id = NoPlaylistId
    /\ video_ids = <<>>
    /\ pl_i = 0
    /\ pl_out = NoPair
    /\ pl_lib = JNull
    /\ pl_searches = <<>>
    /\ pl_adds = <<>>
    /\ pl_creates = <<>>
    /\ pl_tracks = <<>>
    /\ pl_call = 1
    /\ pl_prev = NoPrev
    /\ printed = NoPrint

\* what fetch_setlists_for_year gave run: text is FALSE when a name of the
\* list is not a str
NoFetch == [kind |-> "none", songs |-> <<>>, text |-> TRUE]
NoArgv == [artist |-> "", year |-> 0, tracks |-> <<>>]
NoEnv == [api_key |-> FALSE, client_id |-> FALSE, client_secret |-> FALSE,
          oauth_file |-> FALSE]

CliIdle ==
    /\ cli_pc = "idle"
    /\ argv = NoArgv
    /\ env = NoEnv
    /\ run_calls = <<>>
    /\ stages = <<>>
    /\ run_songs = NoFetch
    /\ top_tracks = <<>>
    /\ net = 0
    /\ failed = "none"
    /\ report = "none"
    /\ exit_status = <<>>

\* no function outside the Setlist.fm client is running
RestIdle == RankIdle /\ ExtractIdle /\ SearchIdle /\ PlaylistIdle /\ CliIdle

InitRequest ==
    /\ LocalsAre(MRStart)
    /\ trace = <<>>
    /\ calls = 1
    /\ limited = FALSE
    /\ FetchIdle
    /\ RestIdle

\* one iteration of the while loop of make_request
ReqIterate ==
    /\ pc = "idle"
    /\ mpc = "loop"
    /\ \E out \in GetOutcomes :
         LET st == make_request_iter(MRLocals, out)
         IN /\ SetLocals(st)
            /\ trace' = trace \o IterEvents(out, st)
    /\ UNCHANGED <<calls, limited, fetchvars, restvars>>

\* the caller calls make_request again
ReqCallAgain ==
    /\ pc = "idle"
    /\ mpc \in {"returned", "raised"}
    /\ calls < MaxCalls
    /\ SetLocals(CallEntry(MRLocals))
    /\ trace' = <<>>
    /\ calls' = calls + 1
    /\ limited' = (limited \/ \E i \in 1..Len(trace) : trace[i].status = StatusTooMany)
    /\ UNCHANGED <<fetchvars, restvars>>

NextRequest == ReqIterate \/ ReqCallAgain

SpecRequest == InitRequest /\ [][NextRequest]_vars

\* the loop of make_request runs on: nothing but the GET and the sleeps,
\* which end, stands between two iterations
SpecRequestFair == SpecRequest /\ WF_vars(ReqIterate)

(***************************************************************************)
(* fetch_setlists_for_year over the real make_request.                     *)
(***************************************************************************)
Init ==
    /\ pc = "loop"
    /\ year \in Years
    /\ max_pages \in 0..MaxPagesCap
    /\ page_num = 0
    /\ songs = <<>>
    /\ setlists = <<>>
    /\ total = 0
    /\ items_per_page = 0
    /\ result = NoResult
    /\ fexc = NoExc
    /\ reqPages = <<>>
    /\ processed = 0
    /\ tp = NoTP
    /\ sawEmpty = FALSE
    /\ sawOlder = FALSE
    /\ LocalsAre([MRStart EXCEPT !.mpc = "idle"])
    /\ trace = <<>>
    /\ calls = 0
    /\ limited = FALSE
    /\ RestIdle

\* the for statement: the next page_num and the call of make_request, or
\* the end of the range and return songs
FetchNext ==
    /\ pc = "loop"
    /\ IF HasNextPage(page_num, max_pages)
       THEN /\ page_num' = page_num + 1
            /\ reqPages' = Append(reqPages, page_num + 1)
            /\ pc' = "request"
            /\ SetLocals(CallEntry(MRLocals))
            /\ UNCHANGED result
       ELSE /\ pc' = "done"
            /\ result' = [returned |-> TRUE, value |-> songs]
            /\ UNCHANGED <<page_num, reqPages, mrvars>>
    /\ total' = 0
    /\ items_per_page' = 0
    /\ UNCHANGED <<year, max_pages, songs, setlists, fexc, processed, tp, sawEmpty,
                   sawOlder, trace, calls, limited, restvars>>

\* the locals of make_request are gone once the call has ended
EndOfCall(st) ==
    IF st.mpc = "loop" THEN st
    ELSE [st EXCEPT !.attempts = 0, !.retry_after = RATE_LIMIT_DELAY]

\* one iteration of the while loop of make_request, called for page_num
FetchGet ==
    /\ pc = "request"
    /\ mpc = "loop"
    /\ \E out \in GetOutcomes : SetLocals(EndOfCall(make_request_iter(MRLocals, out)))
    /\ UNCHANGED <<trace, calls, limited, fetchvars, restvars>>

\* make_request raised: the exception leaves fetch_setlists_for_year
FetchRaise ==
    /\ pc = "request"
    /\ mpc = "raised"
    /\ LET o == OnRequestError(exc, songs)
       IN /\ pc' = o.pc
          /\ fexc' = o.fexc
          /\ result' = o.result
    /\ mpc' = "idle"
    /\ UNCHANGED <<attempts, retry_after, r, exc, trace, calls, limited, year, max_pages,
                   page_num, songs, setlists, total, items_per_page, reqPages,
                   processed, tp, sawEmpty, sawOlder, restvars>>

\* make_request returned r: the loop body from the 404 test to the break on
\* older_than_year
FetchScan ==
    /\ pc = "request"
    /\ mpc = "returned"
    /\ \E sl \in SetlistSeqs :
         LET o == ScanPage(songs, r, sl, year)
         IN /\ setlists' = sl
            /\ songs' = o.songs
            /\ IF o.raised
               THEN /\ pc' = "raised"
                    /\ fexc' = Exc("AttributeError", NoStatus)
                    /\ UNCHANGED result
               ELSE IF o.stop
               THEN /\ pc' = "done"
                    /\ result' = [returned |-> TRUE, value |-> o.songs]
                    /\ UNCHANGED fexc
               ELSE /\ pc' = "paginate"
                    /\ UNCHANGED <<result, fexc>>
            /\ sawEmpty' = (sawEmpty \/ Len(sl) = 0)
            /\ sawOlder' = (sawOlder \/ PageHasOlder(sl, year))
    /\ processed' = processed + 1
    /\ mpc' = "idle"
    /\ UNCHANGED <<attempts, retry_after, r, exc, trace, calls, limited, year, max_pages,
                   page_num, total, items_per_page, reqPages, tp, restvars>>

\* the pagination test that ends the loop body, with total and
\* items_per_page read from data
FetchPaginate ==
    /\ pc = "paginate"
    /\ \E t \in Totals, ipp \in ItemsPerPageValues :
         /\ total' = t
         /\ items_per_page' = ipp
         /\ tp' = TpNext(tp, t, ipp)
         /\ IF LastPage(page_num, ipp, t)
            THEN /\ pc' = "done"
                 /\ result' = [returned |-> TRUE, value |-> songs]
            ELSE /\ pc' = "loop"
                 /\ UNCHANGED result
    /\ setlists' = <<>>
    /\ UNCHANGED <<mrvars, trace, calls, limited, year, max_pages, page_num, songs, fexc,
                   reqPages, processed, sawEmpty, sawOlder, restvars>>

Next == FetchNext \/ FetchGet \/ FetchRaise \/ FetchScan \/ FetchPaginate

Spec == Init /\ [][Next]_vars

(***************************************************************************)
(* utils.py: top_songs, computed as Python computes it.                    *)
(***************************************************************************)
\* ord(c) of the characters of the model
ord(c) == CASE c = "A" -> 65 [] c = "B" -> 66 [] c = "a" -> 97 [] c = "b" -> 98

\* str.lower()
LowerChar(c) ==
    CASE c = "A" -> "a" [] c = "B" -> "b" [] c = "F" -> "f" [] c = "T" -> "t"
      [] OTHER -> c
lower(t) == [i \in 1..Len(t) |-> LowerChar(t[i])]

\* s < t on str: by code point at the first difference, a proper prefix
\* is the smaller
RECURSIVE StrLess(_, _)
StrLess(s, t) ==
    IF Len(t) = 0 THEN FALSE
    ELSE IF Len(s) = 0 THEN TRUE
    ELSE IF s[1] # t[1] THEN ord(s[1]) < ord(t[1])
    ELSE StrLess(Tail(s), Tail(t))

\* collections.Counter(songs): the keys, in the order of their first
\* occurrence (a dict keeps insertion order)
CounterKeys_NoMerge(L) == L
RECURSIVE CounterKeys(_)
CounterKeys(L) ==
    IF Len(L) = 0 THEN <<>>
    ELSE LET k == CounterKeys(SubSeq(L, 1, Len(L) - 1))
             t == L[Len(L)]
         IN IF \E i \in 1..Len(k) : k[i] = t THEN k ELSE Append(k, t)

\* counter[t]
Count(L, t) == Cardinality({i \in 1..Len(L) : L[i] = t})

\* counter.items()
CounterItems(L) ==
    LET k == CounterKeys(L) IN [i \in 1..Len(k) |-> <<k[i], Count(L, k[i])>>]

\* key=lambda kv: (-kv[1], kv[0].lower())
key_CaseSensitive(kv) == <<0 - kv[2], kv[1]>>
key(kv) == <<0 - kv[2], lower(kv[1])>>

\* a < b on the key tuples
KeyLess(a, b) == a[1] < b[1] \/ (a[1] = b[1] /\ StrLess(a[2], b[2]))

\* sorted(items, key=key): stable, an item goes behind every item that is
\* not greater than it
RECURSIVE sorted(_)
sorted(items) ==
    IF Len(items) = 0 THEN <<>>
    ELSE LET s == sorted(SubSeq(items, 1, Len(items) - 1))
             x == items[Len(items)]
             greater == {i \in 1..Len(s) : KeyLess(key(x), key(s[i]))}
             at == IF greater = {} THEN Len(s) + 1
                   ELSE CHOOSE i \in greater : \A j \in greater : i <= j
         IN SubSeq(s, 1, at - 1) \o <<x>> \o SubSeq(s, at, Len(s))

\* s[:n]: a negative n counts from the end
Slice_NoCut(s, n) == s
Slice(s, n) ==
    LET stop == IF n >= 0 THEN (IF n < Len(s) THEN n ELSE Len(s))
                ELSE (IF Len(s) + n > 0 THEN Len(s) + n ELSE 0)
    IN SubSeq(s, 1, stop)

top_songs(L, n) ==
    LET top == Slice(sorted(CounterItems(L)), n)
    IN [i \in 1..Len(top) |-> top[i][1]]

\* the titles the callers pass: two that differ only in case, one that
\* sorts differently with and without case, one of two characters
Titles == {<<"A">>, <<"a">>, <<"B">>, <<"a", "b">>}
SongLists == UNION {[1..k -> Titles] : k \in 0..MaxSongs}

InitRank ==
    /\ rk_pc = "call"
    /\ rk_songs \in SongLists
    /\ rk_n \in (0 - NegN)..MaxN
    /\ rk_out = <<>>
    /\ LocalsAre([MRStart EXCEPT !.mpc = "idle"])
    /\ trace = <<>>
    /\ calls = 0
    /\ limited = FALSE
    /\ FetchIdle
    /\ ExtractIdle
    /\ SearchIdle
    /\ PlaylistIdle
    /\ CliIdle

RankCall ==
    /\ rk_pc = "call"
    /\ rk_out' = top_songs(rk_songs, rk_n)
    /\ rk_pc' = "done"
    /\ UNCHANGED <<rk_songs, rk_n, mrvars, trace, calls, limited, fetchvars, extractvars,
                   searchvars, playlistvars, clivars>>

NextRank == RankCall

SpecRank == InitRank /\ [][NextRank]_vars

(***************************************************************************)
(* _extract_songs_from_setlist called on the setlists a response can hold, *)
(* well-formed or not.                                                     *)
(***************************************************************************)
\* the client and the functions after it are not running
ClientIdle ==
    /\ LocalsAre([MRStart EXCEPT !.mpc = "idle"])
    /\ trace = <<>>
    /\ calls = 0
    /\ limited = FALSE
    /\ FetchIdle
clientvars == <<mrvars, trace, calls, limited, fetchvars>>

\* values of the "song" key of a Set group
SongFields ==
    {JAbsent, JNull, JList(<<>>),
     JList(<<Song("A")>>),
     JList(<<Tape("Intro"), Song("B")>>),
     JList(<<SongEntry(JAbsent, JAbsent), SongEntry(JStr("C"), JBool(FALSE))>>),
     JList(<<SongEntry(JStr(""), JAbsent), SongEntry(JNull, JNull), Song("A")>>)}

\* Set groups: objects with or without "song", the empty object, null
SetGroups ==
    {SetGroup(f, FALSE) : f \in SongFields} \cup {SetGroup(JAbsent, TRUE), JNull}

\* values of the "set" key: absent, null, one Set group, a list of them
SetFields ==
    {JAbsent} \cup SetGroups
        \cup {JList(v) : v \in UNION {[1..k -> SetGroups] : k \in 0..MaxGroups}}

\* values of the "sets" key
SetsFields == {JAbsent, JNull} \cup {SetsObj(f) : f \in SetFields}

InitExtract ==
    /\ ex_pc = "call"
    /\ ex_setlist \in {Setlist(Date2024a, f) : f \in SetsFields}
    /\ ex_out = NoSongs
    /\ ClientIdle
    /\ RankIdle
    /\ SearchIdle
    /\ PlaylistIdle
    /\ CliIdle

ExtractCall ==
    /\ ex_pc = "call"
    /\ ex_out' = _extract_songs_from_setlist(ex_setlist)
    /\ ex_pc' = "done"
    /\ UNCHANGED <<ex_setlist, clientvars, rankvars, searchvars, playlistvars, clivars>>

NextExtract == ExtractCall

SpecExtract == InitExtract /\ [][NextExtract]_vars

(***************************************************************************)
(* search_artist over the real make_request.                               *)
(***************************************************************************)
\* sub in s, on str
Contains(sub, s) ==
    \E i \in 1..(Len(s) - Len(sub) + 1) : SubSeq(s, i, i + Len(sub) - 1) = sub

TextFeat == <<"f", "e", "a", "t", ".">>
TextTribute == <<"t", "r", "i", "b", "u", "t", "e">>

\* an entry of data["artist"]
Artist(name, disambiguation, mbid) ==
    [name |-> name, disambiguation |-> disambiguation, mbid |-> mbid]

\* artist.get("disambiguation", "")
Disambiguation(a) == IF a.disambiguation.t = "str" THEN a.disambiguation.s ELSE <<>>

\* artist["name"].lower() == artist_name.lower()
ExactMatch_CaseSensitive(a, q) == a.name = q
ExactMatch(a, q) == lower(a.name) = lower(q)

\* "feat." not in name.lower() and "tribute" not in disambiguation.lower()
CleanMatch(a) ==
    /\ ~Contains(TextFeat, lower(a.name))
    /\ ~Contains(TextTribute, lower(Disambiguation(a)))

\* return {"name": artist["name"], "mbid": artist["mbid"]}
Found(a) == [kind |-> "returned", name |-> a.name, mbid |-> a.mbid, exc |-> "none"]

\* raise ValueError(f"Artist not found: {artist_name}")
NotFound_Anonymous(q) ==
    [kind |-> "raised", name |-> <<>>, mbid |-> 0, exc |-> "ValueError"]
NotFound(q) == [kind |-> "raised", name |-> q, mbid |-> 0, exc |-> "ValueError"]

\* the first entry of the list among those at the positions at
FirstAt(v, at) == v[CHOOSE i \in at : \A j \in at : i <= j]

\* the body of search_artist after data = r.json()
SelectArtist(q, artists) ==
    IF artists.t # "list" \/ Len(artists.v) = 0 THEN NotFound(q)
    ELSE LET v == artists.v
             exact == {i \in 1..Len(v) : ExactMatch(v[i], q)}
             clean == {i \in 1..Len(v) : CleanMatch(v[i])}
         IN IF exact # {} THEN Found(FirstAt(v, exact))
            ELSE IF clean # {} THEN Found(FirstAt(v, clean))
            ELSE Found(v[1])

\* make_request raised: the exception leaves search_artist
SearchFailed(e) == [kind |-> "raised", name |-> <<>>, mbid |-> 0, exc |-> e.type]

\* the queries and the candidates of the model
Queries == {<<"A", "b">>, <<"b">>}
ArtistNames ==
    {<<"a", "b">>, <<"A", "B">>, <<"B">>, <<"a", " ", "F", "e", "a", "t", ".", " ", "b">>}
Disambiguations == {JAbsent, JStr(<<"T", "r", "i", "b", "u", "t", "e">>), JStr(<<"b">>)}
ArtistLists ==
    UNION {{[i \in 1..k |-> Artist(n[i], d[i], i)] :
                n \in [1..k -> ArtistNames], d \in [1..k -> Disambiguations]} :
           k \in 0..MaxArtists}
ArtistBodies == {JAbsent} \cup {JList(v) : v \in ArtistLists}

InitSearch ==
    /\ sa_pc = "call"
    /\ artist_name \in Queries
    /\ sa_artists = JNull
    /\ sa_out = NoSearchResult
    /\ sa_reqs = <<>>
    /\ ClientIdle
    /\ RankIdle
    /\ ExtractIdle
    /\ PlaylistIdle
    /\ CliIdle

\* r = make_request(.../search/artists, params={"artistName": artist_name, "p": 1})
SearchStart ==
    /\ sa_pc = "call"
    /\ sa_pc' = "request"
    /\ sa_reqs' = Append(sa_reqs, artist_name)
    /\ SetLocals(CallEntry(MRLocals))
    /\ UNCHANGED <<artist_name, sa_artists, sa_out, trace, calls, limited, fetchvars, rankvars,
                   extractvars, playlistvars, clivars>>

\* one iteration of the while loop of make_request
SearchGet ==
    /\ sa_pc = "request"
    /\ mpc = "loop"
    /\ \E out \in GetOutcomes : SetLocals(EndOfCall(make_request_iter(MRLocals, out)))
    /\ UNCHANGED <<searchvars, trace, calls, limited, fetchvars, rankvars, extractvars,
                   playlistvars, clivars>>

\* make_request raised
SearchRaise ==
    /\ sa_pc = "request"
    /\ mpc = "raised"
    /\ sa_pc' = "raised"
    /\ sa_out' = SearchFailed(exc)
    /\ mpc' = "idle"
    /\ UNCHANGED <<attempts, retry_after, r, exc, artist_name, sa_artists, sa_reqs,
                   trace, calls, limited, fetchvars, rankvars, extractvars, playlistvars,
                   clivars>>

\* make_request returned r: data = r.json() and the selection
SearchSelect ==
    /\ sa_pc = "request"
    /\ mpc = "returned"
    /\ \E body \in ArtistBodies :
         /\ sa_artists' = body
         /\ sa_out' = SelectArtist(artist_name, body)
         /\ sa_pc' = IF SelectArtist(artist_name, body).kind = "returned"
                     THEN "done" ELSE "raised"
    /\ mpc' = "idle"
    /\ UNCHANGED <<attempts, retry_after, r, exc, artist_name, sa_reqs,
                   trace, calls, limited, fetchvars, rankvars, extractvars, playlistvars,
                   clivars>>

NextSearch == SearchStart \/ SearchGet \/ SearchRaise \/ SearchSelect

SpecSearch == InitSearch /\ [][NextSearch]_vars

(***************************************************************************)
(* ytmusic_api.py: create_or_update_ytmusic_playlist with                  *)
(* _find_or_create_playlist and _search_for_videos, over a YTMusic client  *)
(* whose calls answer or raise.                                            *)
(***************************************************************************)
Raises == [t |-> "raise"]

\* a library playlist {"title": ..., "playlistId": ...}
Playlist(t, i) == [title |-> t, playlistId |-> <<"lib", i>>]
NewPlaylistId == <<"new", 0>>

\* for playlist in playlists: if playlist["title"].lower() == title.lower():
\* return playlist["playlistId"]; an exception ends the search
TitleMatch_CaseSensitive(p, t) == p.title = t
TitleMatch(p, t) == lower(p.title) = lower(t)
FindPlaylist(lib, t) ==
    IF lib.t # "list" THEN NoPlaylistId
    ELSE LET at == {i \in 1..Len(lib.v) : TitleMatch(lib.v[i], t)}
         IN IF at # {} THEN FirstAt(lib.v, at).playlistId ELSE NoPlaylistId

\* a search result {"videoId": ...}; the id names the query and the filter
SearchResult(videoId) == [videoId |-> videoId]
VideoId(q, f) == JStr(<<q, f>>)
VideoIdTruthy(j) == j.t = "str" /\ j.s # <<>>

\* results = ytm.search(...) or []
OrEmpty(out) == IF out.t = "list" THEN out.v ELSE <<>>

\* if results: video_id = results[0].get("videoId"); if video_id: append
FirstVideoId_Last(results) ==
    IF Len(results) > 0 /\ VideoIdTruthy(results[Len(results)].videoId)
    THEN <<results[Len(results)].videoId.s>> ELSE <<>>
FirstVideoId(results) ==
    IF Len(results) > 0 /\ VideoIdTruthy(results[1].videoId)
    THEN <<results[1].videoId.s>> ELSE <<>>

SearchCall(q, f, out) == [q |-> q, filter |-> f, out |-> out]

\* the body of the loop of _search_for_videos for one query: the ids it
\* appends and the searches it makes
SearchQuery(q, songsOut, videosOut) ==
    IF songsOut = Raises
    THEN [ids |-> <<>>, searches |-> <<SearchCall(q, "songs", songsOut)>>]
    ELSE IF Len(OrEmpty(songsOut)) > 0
    THEN [ids |-> FirstVideoId(OrEmpty(songsOut)),
          searches |-> <<SearchCall(q, "songs", songsOut)>>]
    ELSE [ids |-> IF videosOut = Raises THEN <<>> ELSE FirstVideoId(OrEmpty(videosOut)),
          searches |-> <<SearchCall(q, "songs", songsOut),
                         SearchCall(q, "videos", videosOut)>>]

\* if video_ids: ytm.add_playlist_items(playlist_id, video_ids, duplicates=True)
\* except Exception as e: logger.warning(...): the function goes on to
\* create the playlist
AfterListingError_Raise == "raise"
AfterListingError == "create"

\* ytm.create_playlist(title=title, description=description,
\* privacy_status="PRIVATE")
CreateCall(t, ok) == [title |-> t, privacy_status |-> "PRIVATE", ok |-> ok]

\* _find_or_create_playlist: the id it returns, the create_playlist calls
\* it makes and whether it raises; created tells whether create_playlist
\* answers with an id or raises
FindOrCreate(lib, t, created) ==
    IF FindPlaylist(lib, t) # NoPlaylistId
    THEN [id |-> FindPlaylist(lib, t), creates |-> <<>>, raised |-> FALSE]
    ELSE IF lib = Raises /\ AfterListingError = "raise"
    THEN [id |-> NoPlaylistId, creates |-> <<>>, raised |-> TRUE]
    ELSE [id |-> IF created THEN NewPlaylistId ELSE NoPlaylistId,
          creates |-> <<CreateCall(t, created)>>, raised |-> ~created]

\* ytm.add_playlist_items(playlist_id, video_ids, duplicates=True): the ids
\* are added after the tracks of the playlist, those already in it too
AddPlaylistItems(tracks, ids) == tracks \o ids

\* for i, query in enumerate(queries[:len(video_ids)], 1): print(query)
TracksAdded(qs, ids) == Slice(qs, Len(ids))

ShouldAdd_Always(ids) == TRUE
ShouldAdd(ids) == Len(ids) > 0

\* the arguments and the answers of the model
PlaylistTitles == {<<"A", "b">>, <<"B">>}
LibraryTitles == {<<"a", "B">>, <<"b">>}
LibraryOutcomes ==
    {Raises} \cup
    {JList([i \in 1..Len(t) |-> Playlist(t[i], i)]) :
         t \in UNION {[1..k -> LibraryTitles] : k \in 0..MaxPlaylists}}
SearchOutcomes(q, f) ==
    {Raises, JNull, JList(<<>>),
     JList(<<SearchResult(VideoId(q, f))>>),
     JList(<<SearchResult(JAbsent), SearchResult(VideoId(q, f))>>)}

\* the second invocation meets the library the first one left, the playlist
\* it created listed after the others, and the same search results
LibraryAfter(lib, creates, id) ==
    IF creates = <<>> THEN lib
    ELSE JList((IF lib.t = "list" THEN lib.v ELSE <<>>)
               \o <<[title |-> creates[1].title, playlistId |-> id]>>)
SearchAnswerOf(searches, q, f) ==
    LET at == {i \in 1..Len(searches) : searches[i].q = q /\ searches[i].filter = f}
    IN IF at = {} THEN JNull ELSE FirstAt(searches, at).out
LibraryAnswers ==
    IF pl_call = 1 THEN LibraryOutcomes
    ELSE {LibraryAfter(pl_prev.lib, pl_prev.creates, pl_prev.playlist_id)}
SearchAnswers(q, f) ==
    IF pl_call = 1 THEN SearchOutcomes(q, f)
    ELSE {SearchAnswerOf(pl_prev.searches, q, f)}

InitPlaylist ==
    /\ pl_pc = "find"
    /\ title \in PlaylistTitles
    /\ queries \in {[i \in 1..k |-> i] : k \in 0..MaxQueries}
    /\ playlist_id = NoPlaylistId
    /\ video_ids = <<>>
    /\ pl_i = 0
    /\ pl_out = NoPair
    /\ pl_lib = JNull
    /\ pl_searches = <<>>
    /\ pl_adds = <<>>
    /\ pl_creates = <<>>
    /\ pl_tracks = <<>>
    /\ pl_call = 1
    /\ pl_prev = NoPrev
    /\ printed = NoPrint
    /\ ClientIdle
    /\ RankIdle
    /\ ExtractIdle
    /\ SearchIdle
    /\ CliIdle

\* playlist_id = _find_or_create_playlist(ytm, title, description)
PlFind ==
    /\ pl_pc = "find"
    /\ \E lib \in LibraryAnswers, created \in BOOLEAN :
         LET o == FindOrCreate(lib, title, created)
         IN /\ pl_lib' = lib
            /\ playlist_id' = o.id
            /\ pl_creates' = o.creates
            /\ pl_pc' = IF o.raised THEN "raised" ELSE "search"
    /\ UNCHANGED <<title, queries, video_ids, pl_i, pl_out, pl_searches, pl_adds,
                   pl_tracks, pl_call, pl_prev, printed,
                   clientvars, rankvars, extractvars, searchvars, clivars>>

\* one iteration of the loop of _search_for_videos, or its end
PlSearch ==
    /\ pl_pc = "search"
    /\ IF pl_i < Len(queries)
       THEN \E so \in SearchAnswers(queries[pl_i + 1], "songs"),
               vo \in SearchAnswers(queries[pl_i + 1], "videos") :
                LET o == SearchQuery(queries[pl_i + 1], so, vo)
                IN /\ video_ids' = video_ids \o o.ids
                   /\ pl_searches' = pl_searches \o o.searches
                   /\ pl_i' = pl_i + 1
                   /\ pl_pc' = "search"
       ELSE /\ pl_pc' = "add"
            /\ UNCHANGED <<video_ids, pl_searches, pl_i>>
    /\ UNCHANGED <<title, queries, playlist_id, pl_out, pl_lib, pl_adds,
                   pl_creates, pl_tracks, pl_call, pl_prev, printed,
                   clientvars, rankvars, extractvars, searchvars, clivars>>

\* the add of the found videos and the return
PlAdd ==
    /\ pl_pc = "add"
    /\ IF ShouldAdd(video_ids)
       THEN /\ pl_adds' = Append(pl_adds, [playlist_id |-> playlist_id,
                                           video_ids |-> video_ids])
            /\ \E ok \in BOOLEAN :
                 IF ok
                 THEN /\ pl_pc' = "done"
                      /\ pl_tracks' = AddPlaylistItems(pl_tracks, video_ids)
                      /\ pl_out' = [returned |-> TRUE, playlist_id |-> playlist_id,
                                    video_ids |-> video_ids]
                 ELSE pl_pc' = "raised" /\ pl_out' = pl_out /\ pl_tracks' = pl_tracks
       ELSE /\ pl_pc' = "done"
            /\ pl_out' = [returned |-> TRUE, playlist_id |-> playlist_id,
                          video_ids |-> video_ids]
            /\ UNCHANGED <<pl_adds, pl_tracks>>
    /\ UNCHANGED <<title, queries, playlist_id, video_ids, pl_i, pl_lib, pl_searches,
                   pl_creates, pl_call, pl_prev, printed,
                   clientvars, rankvars, extractvars, searchvars, clivars>>

NextPlaylist == PlFind \/ PlSearch \/ PlAdd

SpecPlaylist == InitPlaylist /\ [][NextPlaylist]_vars

\* run, after create_or_update_ytmusic_playlist returned: the queries it
\* prints under "Tracks added"
RunPrint ==
    /\ pl_pc = "done"
    /\ ~printed.done
    /\ printed' = [done |-> TRUE, queries |-> TracksAdded(queries, pl_out.video_ids)]
    /\ UNCHANGED <<pl_pc, title, queries, playlist_id, video_ids, pl_i, pl_out, pl_lib,
                   pl_searches, pl_adds, pl_creates, pl_tracks, pl_call, pl_prev,
                   clientvars, rankvars, extractvars, searchvars, clivars>>

\* the command is run a second time with the same title and queries
RunAgain ==
    /\ pl_pc = "done"
    /\ pl_call = 1
    /\ pl_call' = 2
    /\ pl_prev' = [lib |-> pl_lib, creates |-> pl_creates, playlist_id |-> playlist_id,
                   searches |-> pl_searches, tracks |-> pl_tracks,
                   video_ids |-> video_ids]
    /\ pl_pc' = "find"
    /\ playlist_id' = NoPlaylistId
    /\ video_ids' = <<>>
    /\ pl_i' = 0
    /\ pl_out' = NoPair
    /\ pl_lib' = JNull
    /\ pl_searches' = <<>>
    /\ pl_adds' = <<>>
    /\ pl_creates' = <<>>
    /\ printed' = NoPrint
    /\ UNCHANGED <<title, queries, pl_tracks,
                   clientvars, rankvars, extractvars, searchvars, clivars>>

NextRunPlaylist == NextPlaylist \/ RunPrint \/ RunAgain

SpecRunPlaylist == InitPlaylist /\ [][NextRunPlaylist]_vars

(***************************************************************************)
(* cli.py: main and run.  The stages of run are calls of the functions     *)
(* above; here each of them returns or raises.                             *)
(***************************************************************************)
DefaultTracks == 20
MinTracks == 1
MaxTracks == 100
MinYear == 1950
MaxYear == 2030

\* args.tracks: the --tracks option, or its default
ParseTracks(a) == IF a.tracks = <<>> THEN DefaultTracks ELSE a.tracks[1]

\* the tests of main on args.tracks and args.year
TracksValid(t) == ~(t < MinTracks) /\ ~(t > MaxTracks)
YearValid_NoUpper(y) == ~(y < MinYear)
YearValid(y) == ~(y < MinYear \/ y > MaxYear)

\* the stages of run, in the order of its body
StageOrder ==
    <<"search_artist", "fetch_setlists_for_year", "top_songs", "init_ytmusic",
      "create_or_update_ytmusic_playlist">>
StageAfter(stage) ==
    LET i == CHOOSE j \in 1..Len(StageOrder) : StageOrder[j] = stage
    IN IF i < Len(StageOrder) THEN StageOrder[i + 1] ELSE "exit"

\* except Exception as e: ... sys.exit(1)
OnStageError_Continue(stage) == [pc |-> StageAfter(stage), exit_status |-> <<>>]
OnStageError(stage) == [pc |-> "exit", exit_status |-> <<1>>]

\* if not songs: raise ValueError("No songs found ...")
NoData_Never(sngs) == FALSE
NoData(sngs) == Len(sngs) = 0

\* init_ytmusic: the tests on the OAuth credentials and the oauth file
OAuthPresent(e) == e.client_id /\ e.client_secret /\ e.oauth_file

\* the command lines, the environments and the fetched lists of the model
YearArgs == {MinYear - 1, MinYear, MaxYear, MaxYear + 1}
TrackArgs == {<<>>, <<MinTracks - 1>>, <<MinTracks>>, <<MaxTracks>>, <<MaxTracks + 1>>}
Argvs == [artist : {"X"}, year : YearArgs, tracks : TrackArgs]
Envs == [api_key : BOOLEAN, client_id : BOOLEAN, client_secret : BOOLEAN,
         oauth_file : BOOLEAN]
Fetched(sngs, text) == [kind |-> "returned", songs |-> sngs, text |-> text]
FetchOutcomes ==
    {Fetched(<<>>, TRUE), Fetched(<<<<"A">>>>, TRUE),
     Fetched(<<<<"a">>, <<"B">>, <<"a">>>>, TRUE), Fetched(<<<<"A">>>>, FALSE)}

InitCli ==
    /\ cli_pc = "import"
    /\ argv \in Argvs
    /\ env \in Envs
    /\ run_calls = <<>>
    /\ stages = <<>>
    /\ run_songs = NoFetch
    /\ top_tracks = <<>>
    /\ net = 0
    /\ failed = "none"
    /\ report = "none"
    /\ exit_status = <<>>
    /\ ClientIdle
    /\ RankIdle
    /\ ExtractIdle
    /\ SearchIdle
    /\ PlaylistIdle

\* what a stage of run leaves unchanged apart from its own results
Leave(stage) ==
    /\ stages' = Append(stages, stage)
    /\ UNCHANGED <<argv, env, run_calls, clientvars, rankvars, extractvars, searchvars,
                   playlistvars>>

\* the stage raised: the except clause of run
Fail(stage, what) ==
    /\ cli_pc' = OnStageError(stage).pc
    /\ exit_status' = OnStageError(stage).exit_status
    /\ failed' = stage
    /\ report' = what

Proceed(stage) ==
    /\ cli_pc' = StageAfter(stage)
    /\ UNCHANGED <<exit_status, failed, report>>

\* from . import setlist_api: the module requires SETLISTFM_API_KEY
CliImport ==
    /\ cli_pc = "import"
    /\ IF env.api_key
       THEN cli_pc' = "main" /\ UNCHANGED <<exit_status, failed, report>>
       ELSE /\ cli_pc' = "exit"
            /\ exit_status' = <<1>>
            /\ failed' = "import"
            /\ report' = "config"
    /\ UNCHANGED <<argv, env, run_calls, stages, run_songs, top_tracks, net,
                   clientvars, rankvars, extractvars, searchvars, playlistvars>>

\* main: the validation of the arguments and the call of run
Main ==
    /\ cli_pc = "main"
    /\ IF TracksValid(ParseTracks(argv)) /\ YearValid(argv.year)
       THEN /\ run_calls' = Append(run_calls, [artist_name |-> argv.artist,
                                               year |-> argv.year,
                                               num_tracks |-> ParseTracks(argv)])
            /\ cli_pc' = StageOrder[1]
            /\ UNCHANGED <<exit_status, failed, report>>
       ELSE /\ cli_pc' = "exit"
            /\ exit_status' = <<2>>
            /\ failed' = "main"
            /\ report' = "usage"
            /\ UNCHANGED run_calls
    /\ UNCHANGED <<argv, env, stages, run_songs, top_tracks, net,
                   clientvars, rankvars, extractvars, searchvars, playlistvars>>

\* artist = setlist_api.search_artist(artist_name)
RunSearch ==
    /\ cli_pc = "search_artist"
    /\ net' = net + 1
    /\ \E ok \in BOOLEAN :
         IF ok THEN Proceed("search_artist") ELSE Fail("search_artist", "error")
    /\ UNCHANGED <<run_songs, top_tracks>>
    /\ Leave("search_artist")

\* songs = setlist_api.fetch_setlists_for_year(artist["mbid"], year) and the
\* test on songs
RunFetch ==
    /\ cli_pc = "fetch_setlists_for_year"
    /\ net' = net + 1
    /\ \/ /\ Fail("fetch_setlists_for_year", "error")
          /\ UNCHANGED run_songs
       \/ \E o \in FetchOutcomes :
            /\ run_songs' = o
            /\ IF NoData(o.songs)
               THEN /\ cli_pc' = OnStageError("fetch_setlists_for_year").pc
                    /\ exit_status' = OnStageError("fetch_setlists_for_year").exit_status
                    /\ report' = "nodata"
                    /\ UNCHANGED failed
               ELSE Proceed("fetch_setlists_for_year")
    /\ UNCHANGED top_tracks
    /\ Leave("fetch_setlists_for_year")

\* top_tracks = utils.top_songs(songs, n=num_tracks)
RunRank ==
    /\ cli_pc = "top_songs"
    /\ IF run_songs.text
       THEN /\ top_tracks' = top_songs(run_songs.songs, run_calls[1].num_tracks)
            /\ Proceed("top_songs")
       ELSE /\ Fail("top_songs", "error")
            /\ UNCHANGED top_tracks
    /\ UNCHANGED <<run_songs, net>>
    /\ Leave("top_songs")

\* ytm = ytmusic_api.init_ytmusic()
RunInit ==
    /\ cli_pc = "init_ytmusic"
    /\ IF ~OAuthPresent(env)
       THEN Fail("init_ytmusic", "config")
       ELSE \E ok \in BOOLEAN :
                IF ok THEN Proceed("init_ytmusic") ELSE Fail("init_ytmusic", "error")
    /\ UNCHANGED <<run_songs, top_tracks, net>>
    /\ Leave("init_ytmusic")

\* ytmusic_api.create_or_update_ytmusic_playlist(ytm, title, description,
\* queries) and the end of run
RunPlaylist ==
    /\ cli_pc = "create_or_update_ytmusic_playlist"
    /\ net' = net + 1
    /\ \E ok \in BOOLEAN :
         IF ok
         THEN /\ cli_pc' = "exit"
              /\ exit_status' = <<0>>
              /\ UNCHANGED <<failed, report>>
         ELSE Fail("create_or_update_ytmusic_playlist", "error")
    /\ UNCHANGED <<run_songs, top_tracks>>
    /\ Leave("create_or_update_ytmusic_playlist")

NextCli ==
    CliImport \/ Main \/ RunSearch \/ RunFetch \/ RunRank \/ RunInit \/ RunPlaylist

SpecCli == InitCli /\ [][NextCli]_vars

(***************************************************************************)
(* Properties of make_request (SpecRequest).                               *)
(***************************************************************************)
IsGet(e) == e.ev = "get"
IsSleep(e) == e.ev = "sleep"
Gets == SelectSeq(trace, IsGet)
Sleeps == SelectSeq(trace, IsSleep)

\* the first k GETs of the call were answered 429 and GET k+1 was answered 200
RateLimitedThenOK(k) ==
    /\ Len(Gets) = k + 1
    /\ \A i \in 1..k : Gets[i].raises = "none" /\ Gets[i].status = StatusTooMany
    /\ Gets[k + 1].raises = "none" /\ Gets[k + 1].status = StatusOK

\* C1: when the first k GETs (1 <= k < MAX_RETRIES) are answered 429 and GET
\* k+1 succeeds, make_request sleeps exactly once between consecutive GETs
\* and returns the successful response after exactly k+1 GETs.
C1_RetryAfterRateLimit ==
    \A k \in 1..(MAX_RETRIES - 1) :
        RateLimitedThenOK(k) =>
            /\ mpc = "returned"
            /\ r.status = StatusOK
            /\ Len(trace) >= (2 * k) + 1
            /\ \A i \in 1..k : IsGet(trace[(2 * i) - 1]) /\ IsSleep(trace[2 * i])
            /\ IsGet(trace[(2 * k) + 1])
            /\ \A i \in ((2 * k) + 2)..Len(trace) : IsSleep(trace[i])

C1_Witness ==
    /\ RateLimitedThenOK(MAX_RETRIES - 1)
    /\ mpc = "returned"
    /\ Len(Sleeps) >= MAX_RETRIES - 1

\* every GET of the call so far was answered 429
AllRateLimited ==
    /\ Len(Gets) >= 1
    /\ \A i \in 1..Len(Gets) : Gets[i].raises = "none" /\ Gets[i].status = StatusTooMany

\* C2: when every GET is answered 429, make_request never returns a
\* response, issues no more than MAX_RETRIES GETs, and after GET number
\* MAX_RETRIES it has failed with a RuntimeError.
C2_RetryExhausted ==
    AllRateLimited =>
        /\ mpc # "returned"
        /\ Len(Gets) <= MAX_RETRIES
        /\ Len(Gets) < MAX_RETRIES => mpc = "loop"
        /\ Len(Gets) = MAX_RETRIES => mpc = "raised" /\ exc.type = "RuntimeError"

C2_Witness ==
    /\ AllRateLimited
    /\ Len(Gets) = MAX_RETRIES
    /\ mpc = "raised"
    /\ exc.type = "RuntimeError"

\* C3: when the first GET is answered with an error status other than 429,
\* make_request fails at once with the HTTP error of that response: one
\* GET, no retry, no sleep.
C3_ErrorStatusFailsAtOnce ==
    (Len(trace) >= 1 /\ trace[1].raises = "none" /\ trace[1].status \in ErrorStatuses) =>
        /\ mpc = "raised"
        /\ exc = Exc("HTTPError", trace[1].status)
        /\ Len(trace) = 1

\* C4: when the GET raises a connectivity failure (an exception without a
\* response), make_request propagates that exception unchanged after the
\* one GET, without a retry.
C4_ConnectivityFailurePropagates ==
    (Len(trace) >= 1 /\ trace[1].raises = "ConnectionError") =>
        /\ mpc = "raised"
        /\ exc = Exc("ConnectionError", NoStatus)
        /\ Len(trace) = 1

(***************************************************************************)
(* Properties of fetch_setlists_for_year (Spec).                           *)
(***************************************************************************)
\* C5: a page request that the server answers with 404 never makes
\* fetch_setlists_for_year raise: neither make_request nor the function
\* ends with an error that stems from a 404 answer.
C5_NotFoundEndsIteration ==
    (mpc = "raised" \/ pc = "raised") =>
        (exc.status # StatusNotFound /\ exc.causeStatus # StatusNotFound)

\* C6: once a processed page held a setlist older than the target year, no
\* further page request is issued.
C6_NoRequestAfterOlder == [][sawOlder => reqPages' = reqPages]_vars

C6_Witness ==
    /\ sawOlder
    /\ pc = "done"
    /\ page_num < max_pages
    /\ Len(reqPages) = 1

Min(a, b) == IF a <= b THEN a ELSE b
Max(a, b) == IF a >= b THEN a ELSE b
CeilDiv(a, b) == (a + b - 1) \div b

\* every page served was non-empty, none held an older setlist, and all
\* reported the same total and the same itemsPerPage > 0
UniformPages ==
    /\ ~sawEmpty
    /\ ~sawOlder
    /\ tp.n = "same"
    /\ tp.itemsPerPage > 0

\* C7: when the function returns after uniform pages (total T, itemsPerPage
\* P > 0, max_pages >= 1), it has issued exactly
\* min(max_pages, max(1, ceil(T / P))) page requests and processed each page.
C7_PageRequestCount ==
    (pc = "done" /\ max_pages >= 1 /\ UniformPages) =>
        /\ Len(reqPages) = Min(max_pages, Max(1, CeilDiv(tp.total, tp.itemsPerPage)))
        /\ processed = Len(reqPages)

C7_Witness ==
    /\ pc = "done"
    /\ UniformPages
    /\ total = 40
    /\ items_per_page = 20
    /\ Len(reqPages) = 2
    /\ processed = 2
    /\ Len(songs) >= 2

\* the songs of the setlists of a page whose event date ends in the target
\* year, in page order
RECURSIVE TrailingYearSongs(_, _)
TrailingYearSongs(sl, y) ==
    IF Len(sl) = 0 THEN <<>>
    ELSE (IF Tail_k(SetlistOf(Head(sl)).eventDate, YearLen) = str(y)
          THEN _extract_songs_from_setlist(SetlistOf(Head(sl))).songs
          ELSE <<>>)
         \o TrailingYearSongs(Tail(sl), y)

\* the same, for the setlists whose event date has at least 10 characters
RECURSIVE FullDateYearSongs(_, _)
FullDateYearSongs(sl, y) ==
    IF Len(sl) = 0 THEN <<>>
    ELSE (IF /\ Len(SetlistOf(Head(sl)).eventDate) >= DateLen
             /\ Tail_k(SetlistOf(Head(sl)).eventDate, YearLen) = str(y)
          THEN _extract_songs_from_setlist(SetlistOf(Head(sl))).songs
          ELSE <<>>)
         \o FullDateYearSongs(Tail(sl), y)

\* the step that processes the page make_request returned
ScanStep == pc = "request" /\ mpc = "returned"

\* C8 as stated: every processed page appends the songs of exactly its
\* setlists whose event date's trailing 4 characters equal str(year), no
\* other step changes the list, and the list is what is returned.
C8_TrailingYearConcatenation ==
    /\ songs = <<>>
    /\ [][/\ ScanStep => songs' = songs \o TrailingYearSongs(setlists', year)
          /\ ~ScanStep => songs' = songs
          /\ pc' = "done" => result' = [returned |-> TRUE, value |-> songs']]_vars

\* C8 amended: every processed page appends, in page order, the songs of
\* exactly its setlists whose event date has at least 10 characters and
\* ends in str(year); no other step changes the list, and the list is what
\* is returned.
C8_FullDateConcatenation ==
    /\ songs = <<>>
    /\ [][/\ ScanStep => songs' = songs \o FullDateYearSongs(setlists', year)
          /\ ~ScanStep => songs' = songs
          /\ pc' = "done" => result' = [returned |-> TRUE, value |-> songs']]_vars

C8_Witness ==
    /\ pc = "done"
    /\ year = 2024
    /\ processed = 2
    /\ setlists = <<"b24", "c23">>
    /\ result = [returned |-> TRUE, value |-> <<"A", "B", "B">>]

\* C9: the page requests are for pages 1, 2, 3, ... in order, and there are
\* never more than max_pages of them.
C9_PageCap ==
    /\ Len(reqPages) <= max_pages
    /\ \A i \in 1..Len(reqPages) : reqPages[i] = i

C9_Witness ==
    /\ pc = "loop"
    /\ Len(reqPages) = max_pages
    /\ max_pages >= 2
    /\ items_per_page = 0
    /\ tp.n = "mixed"

\* C10: when make_request has raised, the function ends with that same
\* exception and returns no list.
C10_RequestErrorPropagates ==
    [][mpc = "raised" => (pc' = "raised" /\ fexc' = exc /\ ~result'.returned)]_vars

C10_Witness ==
    /\ pc = "raised"
    /\ fexc.type = "RuntimeError"
    /\ fexc.cause = "ConnectionError"
    /\ page_num = 2
    /\ Len(songs) > 0
    /\ ~result.returned

\* C11: a page without setlist entries ends the iteration at that page: the
\* function returns the songs collected so far, and no page request follows
\* an empty page, whatever total said.
C11_EmptyPageStops ==
    [][/\ (ScanStep /\ setlists' = <<>>) =>
              (pc' = "done" /\ result' = [returned |-> TRUE, value |-> songs])
       /\ sawEmpty => reqPages' = reqPages]_vars

C11_Witness ==
    /\ pc = "done"
    /\ sawEmpty
    /\ processed = 2
    /\ Len(result.value) > 0
    /\ tp = [n |-> "same", total |-> 40, itemsPerPage |-> 2]

(***************************************************************************)
(* More properties of make_request (SpecRequest).                          *)
(***************************************************************************)
\* the seconds a Retry-After header of the model asks for
HeaderSeconds(h) == IF h.value = <<"3">> THEN 3 ELSE 10

\* positions in the call log of the GETs answered 429
RateLimitedAt == {i \in 1..Len(trace) : IsGet(trace[i]) /\ trace[i].raises = "none"
                                          /\ trace[i].status = StatusTooMany}

\* the backoff in force before position i: the wait of the last 429 before
\* i, or the base delay
BackoffBefore(i) ==
    LET before == {j \in RateLimitedAt : j < i}
    IN IF before = {} THEN RATE_LIMIT_DELAY
       ELSE trace[(CHOOSE j \in before : \A k \in before : k <= j) + 1].d

\* C12: after every 429 the call sleeps for the integer of the Retry-After
\* header when there is one, otherwise for twice the backoff in force (the
\* base delay at first, then the wait just used): 2, 4, 8 without headers.
C12_BackoffSchedule ==
    \A i \in RateLimitedAt :
        /\ i < Len(trace)
        /\ IsSleep(trace[i + 1])
        /\ trace[i + 1].d = IF trace[i].hdr.present THEN HeaderSeconds(trace[i].hdr)
                            ELSE 2 * BackoffBefore(i)

C12_Witness ==
    /\ Len(Gets) = MAX_RETRIES
    /\ \A i \in 1..Len(Gets) : Gets[i].status = StatusTooMany /\ ~Gets[i].hdr.present
    /\ Sleeps = <<SleepEvent(2), SleepEvent(4), SleepEvent(8)>>

\* C13: a call that has returned a response slept the base delay exactly
\* once, right after the successful GET, which is the last GET of the call:
\* every other sleep of the call follows a 429.
C13_BaseDelayOnSuccess ==
    mpc = "returned" =>
        /\ Len(trace) >= 2
        /\ IsGet(trace[Len(trace) - 1])
        /\ trace[Len(trace) - 1].status = StatusOK
        /\ trace[Len(trace)] = SleepEvent(RATE_LIMIT_DELAY)
        /\ \A i \in 1..(Len(trace) - 1) : IsSleep(trace[i]) => (i - 1) \in RateLimitedAt

C13_Witness ==
    /\ mpc = "returned"
    /\ calls = 2
    /\ Len(Gets) = 2
    /\ Len(Sleeps) = 2

\* C14: a RuntimeError raised because the retry cap was exceeded carries
\* the last underlying cause.
C14_ExhaustedWrapsCause ==
    (mpc = "raised" /\ exc.type = "RuntimeError") => exc.cause # "none"

(***************************************************************************)
(* Properties of top_songs (SpecRank).                                     *)
(***************************************************************************)
TitlesOf(L) == {L[i] : i \in 1..Len(L)}
IsPrefixOf(s, t) == Len(s) <= Len(t) /\ SubSeq(t, 1, Len(s)) = s
LowerLeq(a, b) == ~StrLess(lower(b), lower(a))
PermutationsOf(L) ==
    {[i \in 1..Len(L) |-> L[f[i]]] : f \in Permutations(1..Len(L))}

\* C15: for N >= 0 the output has min(N, number of distinct titles)
\* elements.
C15_OutputLength ==
    (rk_pc = "done" /\ rk_n >= 0) =>
        Len(rk_out) = Min(rk_n, Cardinality(TitlesOf(rk_songs)))

C15_Witness ==
    /\ rk_pc = "done"
    /\ rk_n = 2
    /\ Cardinality(TitlesOf(rk_songs)) = 3
    /\ Len(rk_out) = 2

\* C16: a title placed before another has a greater count, or the same
\* count and a lower-cased title that is not greater; counts are of exact
\* strings, so titles that differ in case are ranked separately.
C16_RankingOrder ==
    rk_pc = "done" =>
        /\ \A i, j \in 1..Len(rk_out) :
               i < j =>
                   \/ Count(rk_songs, rk_out[i]) > Count(rk_songs, rk_out[j])
                   \/ /\ Count(rk_songs, rk_out[i]) = Count(rk_songs, rk_out[j])
                      /\ LowerLeq(rk_out[i], rk_out[j])
        /\ rk_n >= Cardinality(TitlesOf(rk_songs)) =>
               TitlesOf(rk_out) = TitlesOf(rk_songs)

C16_Witness ==
    /\ rk_pc = "done"
    /\ Len(rk_out) = 3
    /\ Count(rk_songs, rk_out[1]) = 2
    /\ rk_out[2] = <<"a">>
    /\ rk_out[3] = <<"B">>

\* C17: the output does not depend on the order of the input: for N >= 1
\* every permutation of the songs gives the same list.
C17_PermutationInvariant ==
    (rk_pc = "done" /\ rk_n >= 1) =>
        \A p \in PermutationsOf(rk_songs) : top_songs(p, rk_n) = rk_out

\* C18: for all integers N <= M, top_songs(L, N) is a prefix of
\* top_songs(L, M).
C18_MonotonicTruncation ==
    rk_pc = "done" =>
        \A m \in rk_n..MaxN : IsPrefixOf(rk_out, top_songs(rk_songs, m))

\* C19: the output is empty whenever N <= 0 or the input is empty.
C19_EmptyForNonPositiveN ==
    (rk_pc = "done" /\ (rk_n <= 0 \/ rk_songs = <<>>)) => rk_out = <<>>

\* C20: every title of the output occurs in the input, and no title
\* occurs twice in the output.
C20_OutputTitles ==
    rk_pc = "done" =>
        /\ TitlesOf(rk_out) \subseteq TitlesOf(rk_songs)
        /\ \A i, j \in 1..Len(rk_out) : rk_out[i] = rk_out[j] => i = j

C20_Witness ==
    /\ rk_pc = "done"
    /\ Len(rk_songs) = MaxSongs
    /\ Cardinality(TitlesOf(rk_songs)) = 2
    /\ Len(rk_out) = 2
    /\ rk_n = 3

(***************************************************************************)
(* Properties of _extract_songs_from_setlist (SpecExtract).                *)
(***************************************************************************)
\* the Set groups of a setlist, "set" being one object or a list
GroupsIn(sl) ==
    IF sl.sets.t # "obj" THEN <<>>
    ELSE IF sl.sets.set.t = "list" THEN sl.sets.set.v
    ELSE IF sl.sets.set.t = "obj" THEN <<sl.sets.set>>
    ELSE <<>>

\* the song entries of a Set group
EntriesIn(g) == IF g.t = "obj" /\ g.song.t = "list" THEN g.song.v ELSE <<>>

\* an entry with a non-empty name that is not marked as tape
Performed(e) ==
    /\ e.name.t = "str" /\ e.name.s # ""
    /\ ~(e.tape.t = "bool" /\ e.tape.b)

RECURSIVE PerformedNames(_)
PerformedNames(groups) ==
    IF Len(groups) = 0 THEN <<>>
    ELSE LET es == SelectSeq(EntriesIn(Head(groups)), Performed)
         IN [i \in 1..Len(es) |-> es[i].name.s] \o PerformedNames(Tail(groups))

\* C21: the returned list is, in order over all Set groups, the names of
\* the entries with a non-empty name and no tape marker; a "set" that is
\* one object gives what the one-element list holding it gives.
C21_ExtractedSongs ==
    (ex_pc = "done" /\ ~ex_out.raised) =>
        /\ ex_out.songs = PerformedNames(GroupsIn(ex_setlist))
        /\ (ex_setlist.sets.t = "obj" /\ ex_setlist.sets.set.t = "obj") =>
               ex_out = _extract_songs_from_setlist(
                            Setlist(ex_setlist.eventDate,
                                    SetsObj(JList(<<ex_setlist.sets.set>>))))

C21_Witness ==
    /\ ex_pc = "done"
    /\ ex_setlist.sets.t = "obj"
    /\ ex_setlist.sets.set = SetGroup(JList(<<Tape("Intro"), Song("B")>>), FALSE)
    /\ ex_out = [raised |-> FALSE, songs |-> <<"B">>]

\* C22: the function never raises, whatever key is absent or null.
C22_ExtractNeverRaises == ex_pc = "done" => ~ex_out.raised

(***************************************************************************)
(* Properties of search_artist (SpecSearch).                               *)
(***************************************************************************)
\* positions of the candidates equal to the query but for case, and of the
\* candidates that are neither a feat. nor a tribute entry
ExactAt(q, v) == {i \in 1..Len(v) : lower(v[i].name) = lower(q)}
CleanAt(v) ==
    {i \in 1..Len(v) :
        /\ ~Contains(TextFeat, lower(v[i].name))
        /\ ~(v[i].disambiguation.t = "str"
             /\ Contains(TextTribute, lower(v[i].disambiguation.s)))}
Least(S) == CHOOSE i \in S : \A j \in S : i <= j
ChosenAt(q, v) ==
    IF ExactAt(q, v) # {} THEN Least(ExactAt(q, v))
    ELSE IF CleanAt(v) # {} THEN Least(CleanAt(v))
    ELSE 1
SearchAnswered == sa_pc \in {"done", "raised"} /\ sa_artists.t = "list"

\* C23: for a non-empty candidate list the result is the name and the id
\* of the first case-insensitive match of the query, else of the first
\* candidate that is neither feat. nor tribute, else of the first one.
C23_ArtistSelection ==
    (SearchAnswered /\ Len(sa_artists.v) > 0) =>
        LET a == sa_artists.v[ChosenAt(artist_name, sa_artists.v)]
        IN sa_out = [kind |-> "returned", name |-> a.name, mbid |-> a.mbid,
                     exc |-> "none"]

\* the exact match is second and is a tribute entry
C23_Witness ==
    /\ sa_pc = "done"
    /\ artist_name = <<"A", "b">>
    /\ Len(sa_artists.v) = 2
    /\ sa_artists.v[1].name = <<"B">>
    /\ sa_artists.v[1].disambiguation = JAbsent
    /\ sa_artists.v[2].name = <<"A", "B">>
    /\ sa_artists.v[2].disambiguation.t = "str"
    /\ sa_out.mbid = 2

\* C24: search_artist calls make_request once, for the query; an answer
\* without candidates makes it raise ValueError naming the query, never
\* return a record.
C24_SingleSearchNotFound ==
    /\ sa_pc \in {"request", "done", "raised"} => sa_reqs = <<artist_name>>
    /\ (sa_pc \in {"done", "raised"} /\ sa_artists \in {JAbsent, JList(<<>>)}) =>
          sa_out = [kind |-> "raised", name |-> artist_name, mbid |-> 0,
                    exc |-> "ValueError"]

C24_Witness ==
    /\ sa_pc = "raised"
    /\ sa_artists = JList(<<>>)
    /\ sa_out.exc = "ValueError"
    /\ sa_reqs = <<<<"b">>>>

(***************************************************************************)
(* Properties of the playlist update (SpecPlaylist).                       *)
(***************************************************************************)
\* the answer that decided query q: that of the videos search when there
\* was one, else that of the songs search
DecidingAnswer(q) ==
    LET cs == SelectSeq(pl_searches, LAMBDA c : c.q = q)
    IN cs[Len(cs)].out

\* query q resolved: its deciding search answered with results, the first
\* of which has a video id
Resolved(q) ==
    LET a == DecidingAnswer(q)
    IN /\ a.t = "list"
       /\ Len(a.v) > 0
       /\ a.v[1].videoId.t = "str"

RECURSIVE ResolvedIds(_)
ResolvedIds(n) ==
    IF n = 0 THEN <<>>
    ELSE ResolvedIds(n - 1)
         \o (IF Resolved(queries[n]) THEN <<DecidingAnswer(queries[n]).v[1].videoId.s>>
             ELSE <<>>)

\* the queries searched with the songs filter, in order
SongSearches ==
    LET ss == SelectSeq(pl_searches, LAMBDA c : c.filter = "songs")
    IN [i \in 1..Len(ss) |-> ss[i].q]

\* C27: the video ids are, in query order, the first-result ids of the
\* queries that resolved; a query whose search raised or found nothing is
\* skipped and every query is searched.
C27_VideoIdsInQueryOrder ==
    pl_pc \in {"search", "add", "done", "raised"} =>
        /\ video_ids = ResolvedIds(pl_i)
        /\ SongSearches = SubSeq(queries, 1, pl_i)
        /\ pl_pc \in {"add", "done"} => pl_i = Len(queries)

\* the first query raised, the second resolved through the videos filter
C27_Witness ==
    /\ pl_pc = "add"
    /\ Len(queries) = 2
    /\ pl_searches[1].out = Raises
    /\ Len(pl_searches) = 3
    /\ video_ids = <<<<2, "videos">>>>

\* the playlist id _find_or_create_playlist resolves to: that of the first
\* library playlist with the title, case apart, else the created one
ResolvedPlaylistId ==
    LET at == IF pl_lib.t = "list"
              THEN {i \in 1..Len(pl_lib.v) : lower(pl_lib.v[i].title) = lower(title)}
              ELSE {}
    IN IF at = {} THEN <<"new", 0>> ELSE <<"lib", Least(at)>>

\* C30: add_playlist_items is called once, with the resolved playlist id
\* and all the video ids found, when a video id was found, and never when
\* none was; the function returns the playlist id and the video ids.
C30_AddOnceWhenFound ==
    /\ Len(pl_adds) <= 1
    /\ pl_adds # <<>> =>
           /\ video_ids # <<>>
           /\ pl_adds[1] = [playlist_id |-> ResolvedPlaylistId, video_ids |-> video_ids]
    /\ pl_pc = "done" =>
           /\ pl_out = [returned |-> TRUE, playlist_id |-> ResolvedPlaylistId,
                        video_ids |-> video_ids]
           /\ video_ids # <<>> => Len(pl_adds) = 1
    /\ pl_pc # "done" => ~pl_out.returned

C30_Witness ==
    /\ pl_pc = "done"
    /\ Len(pl_adds) = 1
    /\ Len(video_ids) = 2
    /\ pl_out.playlist_id = <<"lib", 2>>

(***************************************************************************)
(* Properties of main and run (SpecCli).                                   *)
(***************************************************************************)
YtmStages == {"init_ytmusic", "create_or_update_ytmusic_playlist"}
FetchGaveNothing == run_songs.kind = "returned" /\ run_songs.songs = <<>>

\* C25: when fetch_setlists_for_year returns an empty list, run ends with
\* the no-data error and exit status 1, and no stage of the streaming
\* service is called.
C25_NoDataEndsRun ==
    FetchGaveNothing =>
        /\ cli_pc = "exit"
        /\ exit_status = <<1>>
        /\ report = "nodata"
        /\ \A i \in 1..Len(stages) : stages[i] \notin YtmStages

C25_Witness ==
    /\ FetchGaveNothing
    /\ stages = <<"search_artist", "fetch_setlists_for_year">>
    /\ exit_status = <<1>>

\* C26: a missing credential is reported before any network call of the
\* run.
C26_ConfigErrorBeforeNetwork == report = "config" => net = 0

\* C28: the stages are called in the fixed order; a stage that raises is
\* the last one called and the process exits with status 1; a run without
\* error calls all five.
C28_StageErrorEndsRun ==
    /\ IsPrefixOf(stages, StageOrder)
    /\ (\E i \in 1..Len(StageOrder) : failed = StageOrder[i]) =>
           /\ cli_pc = "exit"
           /\ exit_status = <<1>>
           /\ stages[Len(stages)] = failed
    /\ exit_status = <<0>> => stages = StageOrder

C28_Witness ==
    /\ failed = "init_ytmusic"
    /\ report = "error"
    /\ Len(stages) = 4
    /\ exit_status = <<1>>

\* C29: run is called, once, with the artist, the year and the tracks (20
\* when not given) exactly when 1 <= tracks <= 100 and 1950 <= year <=
\* 2030; otherwise main exits with a usage error and run is not called.
C29_RunOnlyForValidArguments ==
    LET tracks == IF argv.tracks = <<>> THEN 20 ELSE argv.tracks[1]
        valid == 1 <= tracks /\ tracks <= 100 /\ 1950 <= argv.year /\ argv.year <= 2030
        started == cli_pc \notin {"idle", "import", "main"} /\ failed # "import"
    IN /\ ~started => run_calls = <<>>
       /\ (started /\ valid) =>
              run_calls = <<[artist_name |-> argv.artist, year |-> argv.year,
                             num_tracks |-> tracks]>>
       /\ (started /\ ~valid) =>
              run_calls = <<>> /\ report = "usage" /\ cli_pc = "exit"

C29_Witness ==
    /\ cli_pc = "exit"
    /\ argv.tracks = <<>>
    /\ argv.year = 2030
    /\ Len(run_calls) = 1
    /\ run_calls[1].num_tracks = 20


(***************************************************************************)
(* Properties of _find_or_create_playlist and of running the command       *)
(* twice (SpecPlaylist, SpecRunPlaylist).                                  *)
(***************************************************************************)

\* the library listing holds a playlist with the requested title, case apart
TitleHeld ==
    /\ pl_lib.t = "list"
    /\ \E i \in 1..Len(pl_lib.v) : lower(pl_lib.v[i].title) = lower(title)

\* _find_or_create_playlist raised: the function stopped before any add
FindRaised == pl_pc = "raised" /\ pl_adds = <<>>

\* C31: when the library holds a playlist with the requested title, case
\* apart, the id of the first such playlist is returned and create_playlist
\* is not called; otherwise create_playlist is called exactly once, with
\* the title and privacy PRIVATE, and the id it gives is returned.
C31_FindElseCreateOnce ==
    pl_pc \notin {"idle", "find"} =>
        IF TitleHeld
        THEN playlist_id = ResolvedPlaylistId /\ pl_creates = <<>>
        ELSE /\ Len(pl_creates) = 1
             /\ pl_creates[1].title = title
             /\ pl_creates[1].privacy_status = "PRIVATE"
             /\ pl_creates[1].ok => (playlist_id = <<"new", 0>> /\ ~FindRaised)

\* the second library playlist has the title in another case; the first
\* has another title
C31_Witness ==
    /\ pl_pc = "search"
    /\ pl_lib.t = "list"
    /\ Len(pl_lib.v) = 2
    /\ pl_lib.v[2].title # title
    /\ playlist_id = <<"lib", 2>>
    /\ pl_creates = <<>>

\* the queries whose search resolved, in query order
ResolvedQueries == SelectSeq(queries, LAMBDA q : Resolved(q))

\* C37: the queries printed under "Tracks added" are the queries whose
\* search produced a video id. Violated: the first len(video_ids) queries
\* are printed, whichever resolved.
C37_PrintedAreResolved ==
    printed.done => printed.queries = ResolvedQueries

\* C38: a second invocation with the same title, queries, search results
\* and the library the first one left creates no playlist and leaves the
\* tracks of the playlist as the first invocation left them. Violated: the
\* video ids are added a second time.
C38_SecondRunChangesNothing ==
    (pl_call = 2 /\ pl_pc = "done") =>
        /\ pl_creates = <<>>
        /\ pl_tracks = pl_prev.tracks

\* C39: when listing the library playlists raises, create_playlist is
\* called with the requested title and the id it gives is returned: the
\* error of the listing does not end the call.
C39_ListingErrorSwallowed ==
    (pl_lib = [t |-> "raise"] /\ pl_pc \notin {"idle", "find"}) =>
        /\ pl_creates # <<>>
        /\ pl_creates[1].title = title
        /\ pl_creates[1].ok =>
               /\ playlist_id = <<"new", 0>>
               /\ pl_pc = "done" => pl_out.playlist_id = <<"new", 0>>
               /\ ~FindRaised

C39_Witness ==
    /\ pl_lib = [t |-> "raise"]
    /\ pl_pc = "done"
    /\ Len(pl_creates) = 1
    /\ pl_out.returned
    /\ pl_out.playlist_id = <<"new", 0>>


(***************************************************************************)
(* The retry state of make_request across calls, its termination and the   *)
(* sleep before a give-up (SpecRequest, SpecRequestFair).                  *)
(***************************************************************************)

\* the call gave up on the retry cap
GaveUp == mpc = "raised" /\ exc.type = "RuntimeError"

\* C32: every call of make_request starts with attempts 0 and the base
\* delay as backoff, whatever the earlier calls left, so a call that
\* follows a rate-limited one gives up only after MAX_RETRIES GETs of its
\* own.
C32_RetryStatePerCall ==
    /\ [][calls' = calls + 1 =>
             (mpc' = "loop" /\ attempts' = 0 /\ retry_after' = RATE_LIMIT_DELAY)]_vars
    /\ [](GaveUp => Len(Gets) = MAX_RETRIES)
    /\ [](mpc = "loop" => Len(Gets) = attempts)

\* the second call, after a rate-limited first one, is answered 429 without
\* a header three times and sleeps 2, 4, 8
C32_Witness ==
    /\ calls = 2
    /\ limited
    /\ GaveUp
    /\ Len(Gets) = MAX_RETRIES
    /\ Sleeps = <<SleepEvent(2), SleepEvent(4), SleepEvent(8)>>

\* C34: make_request ends, returning or raising, after at most MAX_RETRIES
\* GETs whatever the answers are, and attempts never exceeds MAX_RETRIES.
C34_TerminatesWithinCap ==
    /\ [](attempts <= MAX_RETRIES /\ Len(Gets) <= MAX_RETRIES)
    /\ [](mpc = "loop" => attempts < MAX_RETRIES)
    /\ [](mpc = "loop" => <>(mpc \in {"returned", "raised"}))

\* a 429, an error response and a transport exception, then the give-up
C34_Witness ==
    /\ mpc = "raised"
    /\ Len(Gets) = MAX_RETRIES
    /\ Gets[1].status = StatusTooMany
    /\ Gets[2].raises = "none" /\ Gets[2].status \in ErrorStatuses
    /\ Gets[3].raises = "ConnectionError"
    /\ attempts < MAX_RETRIES

\* C35: every sleep that follows a 429 is followed by another GET of the
\* call. Violated: the 429 of the last allowed attempt is slept for and the
\* call then gives up.
C35_SleepThenGet ==
    mpc \in {"returned", "raised"} =>
        \A i \in RateLimitedAt : (i + 1) < Len(trace) /\ IsGet(trace[i + 2])


(***************************************************************************)
(* The page with the first older setlist, and the pages without a setlist  *)
(* of the target year or older (Spec).                                     *)
(***************************************************************************)

\* C33: the page on which an older setlist is seen is processed to its end:
\* the songs of all its target-year setlists are added, those listed after
\* the older setlist too, and the list with them is what is returned.
C33_OlderPageProcessedWhole ==
    [][(ScanStep /\ PageHasOlder(setlists', year)) =>
           /\ songs' = songs \o FullDateYearSongs(setlists', year)
           /\ pc' = "done"
           /\ result' = [returned |-> TRUE, value |-> songs']]_vars

\* the only page lists the 2023 setlist before a 2024 one
C33_Witness ==
    /\ pc = "done"
    /\ year = 2024
    /\ processed = 1
    /\ setlists = <<"c23", "a24">>
    /\ sawOlder
    /\ result = [returned |-> TRUE, value |-> <<"A", "B">>]

\* a setlist that is newer than the target year, or whose event date is
\* shorter than 10 characters or has no numeric year
PassedOver(setlist, y) ==
    \/ Len(setlist.eventDate) < DateLen
    \/ ~isdigit(Tail_k(setlist.eventDate, YearLen))
    \/ int(Tail_k(setlist.eventDate, YearLen)) > y

PassedOverPage(sl, y) ==
    /\ Len(sl) > 0
    /\ \A i \in 1..Len(sl) : PassedOver(SetlistOf(sl[i]), y)

\* C36: a page all of whose setlists are newer than the target year, or
\* have a short event date or a non-numeric year, adds no song and goes on
\* to the pagination test; the loop then ends only on that test or on the
\* page cap, and otherwise requests the next page.
C36_PassedOverPageGoesOn ==
    [][/\ (ScanStep /\ PassedOverPage(setlists', year)) =>
              (songs' = songs /\ pc' = "paginate" /\ sawOlder' = sawOlder)
       /\ (pc = "paginate" /\ PassedOverPage(setlists, year)) =>
              \/ pc' = "loop"
              \/ pc' = "done" /\ page_num * items_per_page' >= total'
       /\ (pc = "loop" /\ page_num >= 1) =>
              \/ reqPages' = Append(reqPages, page_num + 1) /\ pc' = "request"
              \/ pc' = "done" /\ page_num >= max_pages]_vars

\* page 1 held setlists, none older, and gave no song; page 2 is requested
C36_Witness ==
    /\ pc = "request"
    /\ reqPages = <<1, 2>>
    /\ processed = 1
    /\ songs = <<>>
    /\ ~sawEmpty
    /\ ~sawOlder

====
